---------------------------- MODULE Spec2Model ----------------------------
(***************************************************************************)
(* Model of the Odoo addon restaurant_quantity_analysis.                   *)
(*                                                                         *)
(*   models/ingredient.py      restaurant.ingredient                       *)
(*   models/dish.py            restaurant.dish, restaurant.dish.ingredient *)
(*   models/sales_analysis.py  restaurant.sale and its create() override   *)
(*                                                                         *)
(* Quantities are fields.Float: Python floats, i.e. binary floating point  *)
(* with round-to-nearest, ties-to-even.  A quantity is modelled as an      *)
(* integer number of grid units (one unit is a fixed negative power of two *)
(* of a kilogram), and every arithmetic result is rounded to MantBits      *)
(* significant bits the way the hardware rounds to 53.  The exponent range *)
(* is not bounded (no overflow, no subnormals).                            *)
(***************************************************************************)
EXTENDS Integers, Sequences, FiniteSets, TLC

\* ------------------------------------------------------------------ bounds

\* Significand width of the modelled float (the code's is 53).
MantBits == 3
\* Sale records that may be created in one behaviour (the id sequence's cap).
MaxSales == 2
\* Dish-ingredient lines that may be created in one behaviour.
MaxLines == 2
\* The same two caps where every record operation is explored (Spec).
MaxEditedSales == 1
MaxEditedLines == 1

\* The ingredient and dish records of the database.
Ingredients == {"flour", "cheese"}
Dishes == {"pizza", "pasta"}
\* Values a caller passes as quantity_sold, quantity_required and as the
\* stock on hand at the start (all representable at MantBits).
QtySold == {-1, 0, 1, 2}
QtyRequired == {1, 3}
QtyInitial == {2, 10}
\* Values of quantity_sold in the specifications with other operations
\* than sequential creation.
QtyEdited == {1, 2}
\* The two concurrent requests of SpecConc.
Procs == {"req1", "req2"}

\* fields.Date.today at the time of the run.
Today == "today"

\* ---------------------------------------------------------- float arithmetic

Abs(x) == IF x < 0 THEN -x ELSE x

\* The weight of the last of the MantBits bits kept of a magnitude m.
RECURSIVE Ulp(_, _)
Ulp(m, u) == IF m \div u < 2 ^ MantBits THEN u ELSE Ulp(m, 2 * u)

\* m rounded to a multiple of u: to the nearest, a tie to the even multiple.
RoundTo(m, u) ==
    IF 2 * (m % u) > u \/ (2 * (m % u) = u /\ (m \div u) % 2 = 1)
    THEN (m \div u + 1) * u
    ELSE (m \div u) * u

\* Round-to-nearest, ties-to-even, of a magnitude to MantBits significant bits.
RoundMag(m) == IF m < 2 ^ MantBits THEN m ELSE RoundTo(m, Ulp(m, 2))

\* The float nearest to the exact value x.
FRound(x) == IF x < 0 THEN -RoundMag(-x) ELSE RoundMag(x)

\* Python's a * b and a - b on floats (an int operand converts exactly).
FMul(a, b) == FRound(a * b)
FSub(a, b) == FRound(a - b)

\* ------------------------------------------------------------------- state

VARIABLES
    ingredient,   \* restaurant.ingredient: record per ingredient
    dish,         \* restaurant.dish: name per existing dish id
    line,         \* restaurant.dish.ingredient: record per existing line id
    sale,         \* restaurant.sale: record per existing sale id
    nextLine,     \* id sequence of restaurant.dish.ingredient
    nextSale,     \* id sequence of restaurant.sale
    stock0,       \* quantity_available of each ingredient at the start
    pc,           \* each concurrent request's position in create()
    todo,         \* each request's lines still to iterate
    seen          \* each request's locals: its record, the quantity it read

vars == <<ingredient, dish, line, sale, nextLine, nextSale, stock0, pc, todo, seen>>
conc == <<pc, todo, seen>>

\* f with key k removed.
Without(f, ks) == [x \in DOMAIN f \ ks |-> f[x]]

\* The line records a caller can create.
LineRecords ==
    [dish_id : Dishes, ingredient_id : Ingredients,
     quantity_required : QtyRequired]

\* restaurant.ingredient records with a given stock.
IngredientTable(q) ==
    [i \in Ingredients |->
        [name |-> i, quantity_available |-> q[i], minimum_quantity |-> 1]]

\* dish.ingredient_ids of table ln: the ids of the lines whose dish_id is d,
\* in the model's default order (by id).
RECURSIVE SortedSeq(_)
SortedSeq(S) ==
    IF S = {} THEN <<>>
    ELSE LET m == CHOOSE x \in S : \A y \in S : x <= y
         IN  <<m>> \o SortedSeq(S \ {m})

\* Mutant of ingredient_ids: the lines of every dish.
ingredient_ids_unfiltered(ln, d) == SortedSeq(DOMAIN ln)

ingredient_ids(ln, d) == SortedSeq({l \in DOMAIN ln : ln[l].dish_id = d})

\* Mutants of Deducted: `+=` for `-=`; the product without quantity_sold; the
\* result held at zero; the size of quantity_sold without its sign.
DeductedAdded(available, required, sold) ==
    FRound(available + FMul(required, sold))
DeductedPerUnit(available, required, sold) == FSub(available, required)
DeductedClamped(available, required, sold) ==
    IF FSub(available, FMul(required, sold)) < 0 THEN 0
    ELSE FSub(available, FMul(required, sold))
DeductedAbs(available, required, sold) ==
    FSub(available, FMul(required, Abs(sold)))

\* quantity_available - (quantity_required * quantity_sold)
Deducted(available, required, sold) == FSub(available, FMul(required, sold))

\* Mutant of DeductLines: every line deducts from the value read before the
\* loop, so the last line of an ingredient overwrites the earlier ones.
DeductLinesStale(ing, ln, ls, sold) ==
    [i \in DOMAIN ing |->
        LET ks == {k \in 1..Len(ls) : ln[ls[k]].ingredient_id = i}
            last == CHOOSE k \in ks : \A j \in ks : j <= k
        IN  IF ks = {} THEN ing[i]
            ELSE [ing[i] EXCEPT !.quantity_available =
                     Deducted(@, ln[ls[last]].quantity_required, sold)]]

\* Mutant of DeductLines: the deduction is written to minimum_quantity too.
RECURSIVE DeductLinesBothFields(_, _, _, _)
DeductLinesBothFields(ing, ln, ls, sold) ==
    IF ls = <<>> THEN ing
    ELSE LET item == ln[Head(ls)]
             i == item.ingredient_id
             after == [ing EXCEPT
                          ![i].quantity_available =
                              Deducted(@, item.quantity_required, sold),
                          ![i].minimum_quantity =
                              Deducted(@, item.quantity_required, sold)]
         IN  DeductLinesBothFields(after, ln, Tail(ls), sold)

\* The loop of create(): every line in turn reads the ingredient's current
\* quantity_available and writes the deducted value back.
RECURSIVE DeductLines(_, _, _, _)
DeductLines(ing, ln, ls, sold) ==
    IF ls = <<>> THEN ing
    ELSE LET item == ln[Head(ls)]
             i == item.ingredient_id
             after == [ing EXCEPT ![i].quantity_available =
                          Deducted(@, item.quantity_required, sold)]
         IN  DeductLines(after, ln, Tail(ls), sold)

\* ------------------------------------------------------------------ actions

\* RestaurantSale.create(vals): the record is inserted, then the stock of
\* every line of its dish is reduced.
CreateSale(d, n) ==
    /\ nextSale <= MaxSales
    /\ d \in DOMAIN dish
    /\ sale' = sale @@ (nextSale :> [dish_id |-> d, quantity_sold |-> n,
                                     sale_date |-> Today])
    /\ nextSale' = nextSale + 1
    /\ ingredient' = DeductLines(ingredient, line, ingredient_ids(line, d), n)
    /\ UNCHANGED <<dish, line, nextLine, stock0, conc>>

\* Mutant of WriteSale: the rewritten sale deducts again.
WriteSaleDeducting(s, d, n) ==
    /\ s \in DOMAIN sale
    /\ d \in DOMAIN dish
    /\ sale' = [sale EXCEPT ![s].dish_id = d, ![s].quantity_sold = n]
    /\ ingredient' = DeductLines(ingredient, line, ingredient_ids(line, d), n)
    /\ UNCHANGED <<dish, line, nextLine, nextSale, stock0, conc>>

\* Generic write() on a sale (no override in RestaurantSale): only the
\* record's own fields change.
WriteSale(s, d, n) ==
    /\ s \in DOMAIN sale
    /\ d \in DOMAIN dish
    /\ sale' = [sale EXCEPT ![s].dish_id = d, ![s].quantity_sold = n]
    /\ UNCHANGED <<ingredient, dish, line, nextLine, nextSale, stock0, conc>>

\* Generic unlink() on a sale (no override in RestaurantSale).
UnlinkSale(s) ==
    /\ s \in DOMAIN sale
    /\ sale' = Without(sale, {s})
    /\ UNCHANGED <<ingredient, dish, line, nextLine, nextSale, stock0, conc>>

\* Generic create() on restaurant.dish.ingredient, for an existing dish.
CreateLine(r) ==
    /\ nextLine <= MaxLines
    /\ r.dish_id \in DOMAIN dish
    /\ line' = line @@ (nextLine :> r)
    /\ nextLine' = nextLine + 1
    /\ UNCHANGED <<ingredient, dish, sale, nextSale, stock0, conc>>

\* Generic write() on a line.
WriteLine(l, r) ==
    /\ l \in DOMAIN line
    /\ r.dish_id \in DOMAIN dish
    /\ line' = [line EXCEPT ![l] = r]
    /\ UNCHANGED <<ingredient, dish, sale, nextLine, nextSale, stock0, conc>>

\* Generic unlink() on a line.
UnlinkLine(l) ==
    /\ l \in DOMAIN line
    /\ line' = Without(line, {l})
    /\ UNCHANGED <<ingredient, dish, sale, nextLine, nextSale, stock0, conc>>

\* Mutant of Cascaded: the lines are left behind.
CascadedNothing(ln, d) == {}

\* The lines DishIngredient.dish_id's ondelete='cascade' removes with dish d.
Cascaded(ln, d) == {l \in DOMAIN ln : ln[l].dish_id = d}

\* unlink() on a dish.  RestaurantSale.dish_id is required, so the foreign
\* key restricts: a dish some sale references cannot be deleted.
UnlinkDish(d) ==
    /\ d \in DOMAIN dish
    /\ \A s \in DOMAIN sale : sale[s].dish_id # d
    /\ dish' = Without(dish, {d})
    /\ line' = Without(line, Cascaded(line, d))
    /\ UNCHANGED <<ingredient, sale, nextLine, nextSale, stock0, conc>>

\* --------------------------------------------------- concurrent create()

\* The ingredient the request p is about to read or write.
Item(p) == line[Head(todo[p])]

\* super().create(vals), then the recordset record.dish_id.ingredient_ids
\* the loop iterates is evaluated.
ConcCreate(p, d, n) ==
    /\ pc[p] = "idle"
    /\ nextSale <= MaxSales
    /\ d \in DOMAIN dish
    /\ sale' = sale @@ (nextSale :> [dish_id |-> d, quantity_sold |-> n,
                                     sale_date |-> Today])
    /\ nextSale' = nextSale + 1
    /\ todo' = [todo EXCEPT ![p] = ingredient_ids(line, d)]
    /\ seen' = [seen EXCEPT ![p] = [rec |-> nextSale, value |-> 0]]
    /\ pc' = [pc EXCEPT ![p] = "read"]
    /\ UNCHANGED <<ingredient, dish, line, nextLine, stock0>>

\* The read half of `ingredient.quantity_available -= ...`.
ConcRead(p) ==
    /\ pc[p] = "read"
    /\ todo[p] # <<>>
    /\ seen' = [seen EXCEPT ![p].value =
                   ingredient[Item(p).ingredient_id].quantity_available]
    /\ pc' = [pc EXCEPT ![p] = "write"]
    /\ UNCHANGED <<ingredient, dish, line, sale, nextLine, nextSale, stock0, todo>>

\* Mutant of Stored: the value is read again at the write (an atomic
\* read-modify-write).
StoredFresh(p) ==
    Deducted(ingredient[Item(p).ingredient_id].quantity_available,
             Item(p).quantity_required, sale[seen[p].rec].quantity_sold)

\* The value the write half stores: computed from the value read earlier.
Stored(p) ==
    Deducted(seen[p].value, Item(p).quantity_required,
             sale[seen[p].rec].quantity_sold)

\* The write half of `ingredient.quantity_available -= ...`.
ConcWrite(p) ==
    /\ pc[p] = "write"
    /\ ingredient' = [ingredient EXCEPT
                         ![Item(p).ingredient_id].quantity_available = Stored(p)]
    /\ todo' = [todo EXCEPT ![p] = Tail(@)]
    /\ pc' = [pc EXCEPT ![p] = "read"]
    /\ UNCHANGED <<dish, line, sale, nextLine, nextSale, stock0, seen>>

\* `return record` once the loop is exhausted.
ConcReturn(p) ==
    /\ pc[p] = "read"
    /\ todo[p] = <<>>
    /\ pc' = [pc EXCEPT ![p] = "done"]
    /\ UNCHANGED <<ingredient, dish, line, sale, nextLine, nextSale, stock0, todo, seen>>

\* ----------------------------------------------------------- specifications

\* The tables of at most MaxLines lines, with ids 1..k.
LineTables ==
    UNION {[1..k -> LineRecords] : k \in 0..MaxLines}

\* The database with the given lines and no sale yet.
InitWith(ln, st) ==
    /\ stock0 = st
    /\ ingredient = IngredientTable(stock0)
    /\ dish = [d \in Dishes |-> d]
    /\ line = ln
    /\ sale = <<>>
    /\ nextLine = Len(ln) + 1
    /\ nextSale = 1
    /\ pc = [p \in Procs |-> "idle"]
    /\ todo = [p \in Procs |-> <<>>]
    /\ seen = [p \in Procs |-> [rec |-> 0, value |-> 0]]

\* The stock tables the database may start with.
StockTables == [Ingredients -> QtyInitial]

\* Record operations one after another, starting with no lines.
Init == InitWith(<<>>, [i \in Ingredients |-> IF i = "flour" THEN 10 ELSE 2])

Next ==
    \/ \E d \in Dishes, n \in QtyEdited :
          nextSale <= MaxEditedSales /\ CreateSale(d, n)
    \/ \E s \in 1..MaxSales, d \in Dishes, n \in QtyEdited : WriteSale(s, d, n)
    \/ \E s \in 1..MaxSales : UnlinkSale(s)
    \/ \E r \in LineRecords : nextLine <= MaxEditedLines /\ CreateLine(r)
    \/ \E l \in 1..MaxLines, r \in LineRecords : WriteLine(l, r)
    \/ \E l \in 1..MaxLines : UnlinkLine(l)
    \/ \E d \in Dishes : UnlinkDish(d)

Spec == Init /\ [][Next]_vars

\* Sale creations only, one after another, over any fixed set of lines.
InitSales == \E ln \in LineTables, st \in StockTables : InitWith(ln, st)

NextSales == \E d \in Dishes, n \in QtySold : CreateSale(d, n)

SpecSales == InitSales /\ [][NextSales]_vars

\* Sales and dish deletions over any fixed set of lines: only the cascade
\* removes a line.
InitDishes == \E ln \in LineTables, st \in StockTables : InitWith(ln, st)

NextDishes ==
    \/ \E d \in Dishes, n \in QtyEdited : CreateSale(d, n)
    \/ \E s \in 1..MaxSales : UnlinkSale(s)
    \/ \E d \in Dishes : UnlinkDish(d)

SpecDishes == InitDishes /\ [][NextDishes]_vars

\* Two requests running create() concurrently over any fixed set of lines.
InitConc == \E ln \in LineTables, st \in StockTables : InitWith(ln, st)

NextConc ==
    \/ \E p \in Procs, d \in Dishes, n \in QtyEdited : ConcCreate(p, d, n)
    \/ \E p \in Procs : ConcRead(p)
    \/ \E p \in Procs : ConcWrite(p)
    \/ \E p \in Procs : ConcReturn(p)

SpecConc == InitConc /\ [][NextConc]_vars

\* ------------------------------------------------------------------- claims

\* quantity_available of ingredient i.
Stock(i) == ingredient[i].quantity_available

\* The lines of dish d, as a set and in iteration order.
LinesOf(d) == {l \in DOMAIN line : line[l].dish_id = d}
OrderedLines(d) == SortedSeq(LinesOf(d))

\* The lines of dish d that reference ingredient i.
LinesFor(d, i) == {l \in LinesOf(d) : line[l].ingredient_id = i}

\* Dish d references every ingredient at most once.
DistinctIngredients(d) ==
    \A l1, l2 \in LinesOf(d) :
        line[l1].ingredient_id = line[l2].ingredient_id => l1 = l2

\* The float product quantity_required * n of line l.
Delta(l, n) == FMul(line[l].quantity_required, n)

\* A step that creates a sale: the id sequence advances.
SaleCreated == nextSale' = nextSale + 1
\* The sale such a step creates.
NewSale == sale'[nextSale]

\* The value v of ingredient i after the lines ls have each, in turn,
\* subtracted their product from it.
RECURSIVE Successively(_, _, _, _)
Successively(v, i, ls, n) ==
    IF ls = <<>> THEN v
    ELSE Successively(IF line[Head(ls)].ingredient_id = i
                      THEN FSub(v, Delta(Head(ls), n)) ELSE v,
                      i, Tail(ls), n)

\* The float sum, in iteration order, of the products of the lines ls that
\* reference ingredient i.
RECURSIVE SumOfDeltas(_, _, _)
SumOfDeltas(i, ls, n) ==
    IF ls = <<>> THEN 0
    ELSE LET rest == SumOfDeltas(i, SubSeq(ls, 1, Len(ls) - 1), n)
             l == ls[Len(ls)]
         IN  IF line[l].ingredient_id = i THEN FRound(rest + Delta(l, n)) ELSE rest

\* The stock of ingredient i after the sales ss (a sequence of sale ids) have
\* been applied one after another to the stock v.
RECURSIVE Replayed(_, _, _)
Replayed(v, i, ss) ==
    IF ss = <<>> THEN v
    ELSE LET s == sale[Head(ss)]
         IN  Replayed(Successively(v, i, OrderedLines(s.dish_id), s.quantity_sold),
                      i, Tail(ss))

\* The float sum, in creation order, of what the sales ss consumed of i.
RECURSIVE Consumed(_, _)
Consumed(i, ss) ==
    IF ss = <<>> THEN 0
    ELSE LET s == sale[ss[Len(ss)]]
         IN  FRound(Consumed(i, SubSeq(ss, 1, Len(ss) - 1))
                    + SumOfDeltas(i, OrderedLines(s.dish_id), s.quantity_sold))

\* Every order of the elements of S.
RECURSIVE Orders(_)
Orders(S) ==
    IF S = {} THEN {<<>>}
    ELSE UNION {{<<x>> \o o : o \in Orders(S \ {x})} : x \in S}

\* The sales created so far, in creation order.
SalesSoFar == SortedSeq(DOMAIN sale)

\* C1: a sale of n units of a dish whose lines reference pairwise distinct
\* ingredients leaves each referenced ingredient at its value before the
\* creation minus quantity_required * n (in the code's float arithmetic).
C1_EachLineDeducted ==
    [][SaleCreated /\ DistinctIngredients(NewSale.dish_id) =>
        \A l \in LinesOf(NewSale.dish_id) :
            ingredient'[line[l].ingredient_id].quantity_available =
                FSub(Stock(line[l].ingredient_id), Delta(l, NewSale.quantity_sold))]_vars

\* One sale of 2 units of a dish with two lines on different ingredients has
\* been created and both ingredients are down by their own product.
C1_Witness ==
    /\ nextSale = 2 /\ DOMAIN sale = {1} /\ sale[1].quantity_sold = 2
    /\ Cardinality(LinesOf(sale[1].dish_id)) = 2
    /\ DistinctIngredients(sale[1].dish_id)
    /\ \A l \in LinesOf(sale[1].dish_id) :
          /\ Stock(line[l].ingredient_id) =
                 FSub(stock0[line[l].ingredient_id], Delta(l, 2))
          /\ Stock(line[l].ingredient_id) # stock0[line[l].ingredient_id]

\* C2 (as amended): after any sequence of sale creations every ingredient's
\* quantity_available is its initial value with the deductions of the
\* recorded sales applied one after another, in creation order and each
\* rounded as a float.
C2_RunningTotalInCreationOrder ==
    \A i \in Ingredients : Stock(i) = Replayed(stock0[i], i, SalesSoFar)

\* Two sales of different quantities have been created against dishes that
\* both consume flour, and flour reflects both.
C2_Witness ==
    /\ DOMAIN sale = {1, 2}
    /\ sale[1].quantity_sold = 1 /\ sale[2].quantity_sold = 2
    /\ LinesFor(sale[1].dish_id, "flour") # {}
    /\ LinesFor(sale[2].dish_id, "flour") # {}
    /\ sale[1].dish_id # sale[2].dish_id
    /\ Stock("flour") < Replayed(stock0["flour"], "flour", <<1>>)
    /\ Stock("flour") < Replayed(stock0["flour"], "flour", <<2>>)

\* C2 (as stated): quantity_available is the initial value minus the sum of
\* the recorded sales' consumption, whatever the order of the sales.
C2_InitialMinusSumAnyOrder ==
    \A i \in Ingredients :
        /\ Stock(i) = FSub(stock0[i], Consumed(i, SalesSoFar))
        /\ \A o \in Orders(DOMAIN sale) : Stock(i) = Replayed(stock0[i], i, o)

\* C3 (as amended): when a dish references an ingredient on several lines, a
\* sale applies every one of those lines once, each to the value the line
\* before it left (none is skipped, none overwritten).
C3_EveryLineAppliedInTurn ==
    [][SaleCreated =>
        \A i \in Ingredients :
            ingredient'[i].quantity_available =
                Successively(Stock(i), i, OrderedLines(NewSale.dish_id),
                             NewSale.quantity_sold)]_vars

\* One sale has been created for a dish with two lines on the same
\* ingredient, which is down by both lines, not by one of them only.
C3_Witness ==
    /\ nextSale = 2 /\ DOMAIN sale = {1} /\ sale[1].quantity_sold = 1
    /\ \E i \in Ingredients :
          /\ LinesFor(sale[1].dish_id, i) = {1, 2}
          /\ Stock(i) = FSub(FSub(stock0[i], Delta(1, 1)), Delta(2, 1))
          /\ Stock(i) # FSub(stock0[i], Delta(1, 1))
          /\ Stock(i) # FSub(stock0[i], Delta(2, 1))

\* C3 (as stated): the ingredient decreases by the sum of the products of
\* all the lines that reference it.
C3_DecreasesBySum ==
    [][SaleCreated =>
        \A i \in Ingredients :
            ingredient'[i].quantity_available =
                FSub(Stock(i), SumOfDeltas(i, OrderedLines(NewSale.dish_id),
                                           NewSale.quantity_sold))]_vars

\* The one line of the dish of request p's sale, when the dish has one line.
OnlyLine(p) == CHOOSE l \in LinesOf(sale[seen[p].rec].dish_id) : TRUE
\* What request p's sale deducts through that line.
OwnDelta(p) == Delta(OnlyLine(p), sale[seen[p].rec].quantity_sold)

\* Both requests have returned, each sold a dish with a single line, the two
\* lines reference the same ingredient, and both requests read the same
\* value of it.
BothReadTheSame ==
    /\ \A p \in Procs : pc[p] = "done"
    /\ \A p \in Procs : Cardinality(LinesOf(sale[seen[p].rec].dish_id)) = 1
    /\ \A p, q \in Procs :
          /\ line[OnlyLine(p)].ingredient_id = line[OnlyLine(q)].ingredient_id
          /\ seen[p].value = seen[q].value

\* C4: nothing makes the read and the write of quantity_available atomic:
\* when two concurrent creations read the same value of a shared ingredient,
\* the final value is that value less the deduction of one request only (the
\* last writer's), the other deduction being lost.
C4_OnlyOneDeductionSurvives ==
    BothReadTheSame =>
        \E p \in Procs :
            Stock(line[OnlyLine(p)].ingredient_id) = FSub(seen[p].value, OwnDelta(p))

\* Both requests read the same value, both deduct something, and the final
\* stock is neither serial outcome: one deduction is lost.
C4_Witness ==
    /\ BothReadTheSame
    /\ \A p \in Procs : OwnDelta(p) > 0
    /\ LET i == line[OnlyLine("req1")].ingredient_id
           v == seen["req1"].value
       IN  /\ v = stock0[i]
           /\ Stock(i) = FSub(v, OwnDelta("req2"))
           /\ Stock(i) # FSub(FSub(v, OwnDelta("req1")), OwnDelta("req2"))
           /\ Stock(i) # FSub(FSub(v, OwnDelta("req2")), OwnDelta("req1"))

\* C5: where the product of a line exceeds what is available, the creation
\* of the sale is still possible, and when it happens the sale is recorded
\* and the ingredient is left at the negative difference, not at zero.
C5_NoClampNoFailure ==
    /\ [](nextSale <= MaxSales =>
            \A d \in DOMAIN dish, n \in QtySold :
                (\E l \in LinesOf(d) : Delta(l, n) > Stock(line[l].ingredient_id))
                    => ENABLED CreateSale(d, n))
    /\ [][SaleCreated =>
            /\ nextSale \in DOMAIN sale'
            /\ \A i \in Ingredients :
                  \A l \in LinesFor(NewSale.dish_id, i) :
                      (LinesFor(NewSale.dish_id, i) = {l}
                         /\ Delta(l, NewSale.quantity_sold) > Stock(i)) =>
                          /\ ingredient'[i].quantity_available =
                                 FSub(Stock(i), Delta(l, NewSale.quantity_sold))
                          /\ ingredient'[i].quantity_available < 0]_vars

\* One sale of 1 unit has been recorded whose single flour line requires
\* more than the stock held: flour is negative by the difference.
C5_Witness ==
    /\ nextSale = 2 /\ DOMAIN sale = {1} /\ sale[1].quantity_sold = 1
    /\ \E l \in DOMAIN line :
          /\ LinesFor(sale[1].dish_id, "flour") = {l}
          /\ line[l].quantity_required > stock0["flour"]
          /\ Stock("flour") = stock0["flour"] - line[l].quantity_required
          /\ Stock("flour") < 0

C7_NoLinesNoDeduction ==
    [][SaleCreated /\ LinesOf(NewSale.dish_id) = {} =>
        /\ ingredient' = ingredient
        /\ nextSale \in DOMAIN sale'
        /\ DOMAIN sale' = DOMAIN sale \cup {nextSale}]_vars

\* A sale of 2 units of a dish without lines has been recorded while the
\* other dish has lines, and the stock is the initial stock.
C7_Witness ==
    /\ nextSale = 2 /\ DOMAIN sale = {1} /\ sale[1].quantity_sold = 2
    /\ LinesOf(sale[1].dish_id) = {}
    /\ Cardinality(DOMAIN line) = 2
    /\ ingredient = IngredientTable(stock0)

\* A step that deletes dish d.
DishDeleted(d) == d \in DOMAIN dish /\ d \notin DOMAIN dish'

\* C8: deleting a dish removes every line of that dish, keeps the lines of
\* the other dishes, and changes no ingredient.
C8_DishDeletionCascades ==
    [][\A d \in Dishes : DishDeleted(d) =>
        /\ \A l \in DOMAIN line' : line'[l].dish_id # d
        /\ \A l \in DOMAIN line :
              line[l].dish_id # d => l \in DOMAIN line' /\ line'[l] = line[l]
        /\ ingredient' = ingredient]_vars

\* A dish has been deleted with its line (nothing else removes a line in
\* this specification), the other dish keeps its line, and the stock is what
\* the recorded sale of the other dish left.
C8_Witness ==
    /\ Cardinality(DOMAIN dish) = 1
    /\ nextLine = 3 /\ Cardinality(DOMAIN line) = 1
    /\ \A l \in DOMAIN line : line[l].dish_id \in DOMAIN dish
    /\ DOMAIN sale = {1}
    /\ \A i \in Ingredients : Stock(i) = Replayed(stock0[i], i, <<1>>)
    /\ \E i \in Ingredients : Stock(i) # stock0[i]

\* C9: only the creation of a sale changes stock: updating or deleting a
\* sale, adding, editing or removing a line (and deleting a dish) leave every
\* quantity_available as it is.
C9_OnlyCreationChangesStock ==
    [][~SaleCreated => ingredient' = ingredient]_vars

\* The only sale ever created sold 1 unit through the only line ever
\* created, 3 of flour; since then the sale was rewritten to 2 units of the
\* other dish and the line to 1 of cheese for that dish: flour still carries
\* the first deduction and cheese none.
C9_Witness ==
    /\ nextSale = 2 /\ DOMAIN sale = {1}
    /\ sale[1] = [dish_id |-> "pasta", quantity_sold |-> 2, sale_date |-> Today]
    /\ nextLine = 2 /\ DOMAIN line = {1}
    /\ line[1] = [dish_id |-> "pasta", ingredient_id |-> "cheese",
                  quantity_required |-> 1]
    /\ Stock("flour") = FSub(stock0["flour"], 3)
    /\ Stock("cheese") = stock0["cheese"]

\* C10: the creation of a sale adds the one sale record and changes the
\* quantity_available of ingredients its dish references, nothing else.
C10_CreationFrame ==
    [][SaleCreated =>
        /\ \A i \in Ingredients :
              /\ LinesFor(NewSale.dish_id, i) = {} => ingredient'[i] = ingredient[i]
              /\ ingredient'[i].name = ingredient[i].name
              /\ ingredient'[i].minimum_quantity = ingredient[i].minimum_quantity
        /\ DOMAIN ingredient' = Ingredients
        /\ dish' = dish
        /\ line' = line
        /\ DOMAIN sale' = DOMAIN sale \cup {nextSale}
        /\ \A s \in DOMAIN sale : sale'[s] = sale[s]]_vars

\* A second sale has been recorded for a dish that references flour only:
\* flour changed with it, cheese and the first sale did not.
C10_Witness ==
    /\ DOMAIN sale = {1, 2}
    /\ LinesOf(sale[1].dish_id) = {}
    /\ sale[1].quantity_sold = -1 /\ sale[2].quantity_sold = 2
    /\ LinesFor(sale[2].dish_id, "flour") # {}
    /\ LinesFor(sale[2].dish_id, "cheese") = {}
    /\ Stock("flour") # stock0["flour"]
    /\ Stock("cheese") = stock0["cheese"]
    /\ \A i \in Ingredients : ingredient[i].minimum_quantity = 1 /\ ingredient[i].name = i

=============================================================================
